---- MODULE Spec2Model ----
(***************************************************************************)
(* A model of catalyst/utils/tensorboard.py: the masked CRC32C checksum,   *)
(* the record framer EventsFileReader and the directory reader             *)
(* SummaryReader, as a state machine driven by a consumer that pulls items.*)
(*                                                                         *)
(* Python integers are unbounded; they are modelled as sequences of bits,  *)
(* least significant bit first, so that the 32-bit truncations of the code *)
(* (_u32) are visible.  Bytes of a stream are the integers 0..255.         *)
(***************************************************************************)
EXTENDS Integers, Sequences, FiniteSets, TLC

\* ------------------------------------------------------------------------
\* Bounds of the model.
\* ------------------------------------------------------------------------

\* The most records a generated stream or directory holds.
MaxRecords == 2

\* ------------------------------------------------------------------------
\* Python integers as bit sequences (LSB first).
\* ------------------------------------------------------------------------

RECURSIVE ToBits(_, _)
\* The w low bits of the small non-negative integer n.
ToBits(n, w) == IF w = 0 THEN <<>> ELSE <<n % 2>> \o ToBits(n \div 2, w - 1)

RECURSIVE ToInt(_)
\* The integer a bit sequence denotes (used only where the value is small).
ToInt(b) == IF b = <<>> THEN 0 ELSE b[1] + 2 * ToInt(Tail(b))

\* Bit i (1-based, LSB first) of b, 0 beyond its length.
BitAt(b, i) == IF i <= Len(b) THEN b[i] ELSE 0

Max2(a, b) == IF a >= b THEN a ELSE b

Min2(a, b) == IF a <= b THEN a ELSE b


\* x >> n
ShiftRight(x, n) == IF n >= Len(x) THEN <<>> ELSE SubSeq(x, n + 1, Len(x))

\* x << n
ShiftLeft(x, n) == [i \in 1..(Len(x) + n) |-> IF i <= n THEN 0 ELSE x[i - n]]

\* x | y
BitOr(x, y) ==
    [i \in 1..Max2(Len(x), Len(y)) |-> IF BitAt(x, i) + BitAt(y, i) > 0 THEN 1 ELSE 0]

\* x ^ y
BitXor(x, y) ==
    [i \in 1..Max2(Len(x), Len(y)) |-> (BitAt(x, i) + BitAt(y, i)) % 2]

RECURSIVE AddCarry(_, _, _, _)
\* Ripple-carry addition of x and y from bit i on, with carry c.
AddCarry(x, y, i, c) ==
    IF i > Max2(Len(x), Len(y))
    THEN (IF c = 1 THEN <<1>> ELSE <<>>)
    ELSE LET s == BitAt(x, i) + BitAt(y, i) + c
         IN  <<s % 2>> \o AddCarry(x, y, i + 1, s \div 2)

\* x + y
BitAdd(x, y) == AddCarry(x, y, 1, 0)

\* The number of bits of a 32-bit word.
WordBits == 32

\* x & 0xffffffff, as a word of exactly 32 bits.
u32(x) == [i \in 1..WordBits |-> BitAt(x, i)]

\* Little-endian bytes to an integer: struct.unpack('I' / 'Q', data)[0].
RECURSIVE unpack(_)
unpack(data) ==
    IF data = <<>> THEN <<>> ELSE ToBits(Head(data), 8) \o unpack(Tail(data))

RECURSIVE unpack_size(_, _)
\* struct.unpack('Q', data)[0] as a number of bytes to read, or cap if that
\* is less: a size beyond the length of a stream reads like any other.
unpack_size(data, cap) ==
    IF data = <<>> THEN 0
    ELSE LET v == Head(data) + 256 * unpack_size(Tail(data), cap)
         IN  IF v > cap THEN cap ELSE v

\* An integer of 8*n bits to n little-endian bytes: struct.pack.
pack(x, n) == [k \in 1..n |-> ToInt([i \in 1..8 |-> BitAt(x, 8 * (k - 1) + i)])]

\* ------------------------------------------------------------------------
\* CRC32C (Castagnoli), as the crc32c library computes it.
\* ------------------------------------------------------------------------

\* The reflected Castagnoli polynomial 0x82F63B78.
CrcPoly == unpack(<<120, 59, 246, 130>>)

RECURSIVE CrcRounds(_, _)
\* k rounds of the bitwise CRC step on the 32-bit register c.
CrcRounds(c, k) ==
    IF k = 0 THEN c
    ELSE CrcRounds(IF c[1] = 1 THEN u32(BitXor(ShiftRight(c, 1), CrcPoly))
                               ELSE u32(ShiftRight(c, 1)),
                   k - 1)

\* The byte table of the table-driven algorithm; a register is kept as its
\* four little-endian bytes.
CrcTable == [b \in 0..255 |-> pack(CrcRounds(u32(ToBits(b, 8)), 8), 4)]

XorNibble == [a \in 0..15 |-> [b \in 0..15 |-> ToInt(BitXor(ToBits(a, 4), ToBits(b, 4)))]]

\* a ^ b for two bytes.
XorByte(a, b) == 16 * XorNibble[a \div 16][b \div 16] + XorNibble[a % 16][b % 16]

RECURSIVE CrcUpdate(_, _)
\* c = table[(c ^ byte) & 0xff] ^ (c >> 8), for each byte of data.
CrcUpdate(c, data) ==
    IF data = <<>> THEN c
    ELSE LET t == CrcTable[XorByte(c[1], Head(data))]
         IN  CrcUpdate(<<XorByte(t[1], c[2]), XorByte(t[2], c[3]),
                         XorByte(t[3], c[4]), t[4]>>,
                       Tail(data))

\* crc32c(data): initial register and final xor are 0xffffffff.
crc32c(data) ==
    LET c == CrcUpdate(<<255, 255, 255, 255>>, data)
    IN  unpack([i \in 1..4 |-> XorByte(c[i], 255)])

\* The additive mask constant 0xa282ead8.
MaskDelta == unpack(<<216, 234, 130, 162>>)

\* A variant of masked_crc32c without the last _u32: the sum is not
\* wrapped.
masked_crc32c_unwrapped(data) ==
    LET x == u32(crc32c(data))
    IN  BitAdd(BitOr(ShiftRight(x, 15), u32(ShiftLeft(x, 17))), MaskDelta)

\* _masked_crc32c(data)
masked_crc32c(data) ==
    LET x == u32(crc32c(data))
    IN  u32(BitAdd(BitOr(ShiftRight(x, 15), u32(ShiftLeft(x, 17))), MaskDelta))

\* ------------------------------------------------------------------------
\* Streams and the record framer EventsFileReader.
\*
\* A stream is [data, nonblocking]; a read position is a byte offset.  The
\* result of a read is a record [exc, msg, none, bytes, pos]: the class of
\* the exception raised ("" for none) and its message, whether the result
\* is None, the bytes returned and the stream position afterwards.
\* ------------------------------------------------------------------------

NoExc == ""

Raised(exc, msg, p) ==
    [exc |-> exc, msg |-> msg, none |-> FALSE, bytes |-> <<>>, pos |-> p]

Returned(none, bytes, p) ==
    [exc |-> NoExc, msg |-> "", none |-> none, bytes |-> bytes, pos |-> p]

\* BinaryIO.read(size) at position p.  A stream in non-blocking mode may
\* answer None (would block); `stall` says whether this call does.
file_read(s, p, size, stall) ==
    IF s.nonblocking /\ stall
    THEN Returned(TRUE, <<>>, p)
    ELSE LET e == Min2(p + size, Len(s.data))
         IN  IF e > p THEN Returned(FALSE, SubSeq(s.data, p + 1, e), e)
                      ELSE Returned(FALSE, <<>>, p)

\* A variant of read_result that takes a short read for the end of the
\* stream.
read_result_short_as_end(data, size) ==
    IF data.none
    THEN Raised("NotImplementedError",
                "Reading of a stream in non-blocking mode", data.pos)
    ELSE IF Len(data.bytes) < size
    THEN Returned(TRUE, <<>>, data.pos)
    ELSE Returned(FALSE, data.bytes, data.pos)

\* A variant of read_result that takes the would-block answer for the end
\* of the stream.
read_result_none_as_end(data, size) ==
    IF data.none
    THEN Returned(TRUE, <<>>, data.pos)
    ELSE IF 0 < Len(data.bytes) /\ Len(data.bytes) < size
    THEN Raised("EventReadingError",
                "The size of read data is less than requested size", data.pos)
    ELSE IF Len(data.bytes) = 0
    THEN Returned(TRUE, <<>>, data.pos)
    ELSE Returned(FALSE, data.bytes, data.pos)

\* EventsFileReader._read(size), after its call of read: data is what the
\* stream answered.
read_result(data, size) ==
    IF data.none
    THEN Raised("NotImplementedError",
                "Reading of a stream in non-blocking mode", data.pos)
    ELSE IF 0 < Len(data.bytes) /\ Len(data.bytes) < size
    THEN Raised("EventReadingError",
                "The size of read data is less than requested size", data.pos)
    ELSE IF Len(data.bytes) = 0
    THEN Returned(TRUE, <<>>, data.pos)
    ELSE Returned(FALSE, data.bytes, data.pos)

\* EventsFileReader._read(size)
read(s, p, size, stall) == read_result(file_read(s, p, size, stall), size)

\* struct.calcsize('I')
checksum_size == 4

\* struct.calcsize('Q')
header_size == 8

\* A variant of verify_checksum that reads the checksum and does not
\* compare it.
verify_checksum_unchecked(data, sum) ==
    IF sum.exc # NoExc
    THEN sum
    ELSE IF sum.none
    THEN Raised("TypeError", "a bytes-like object is required", sum.pos)
    ELSE Returned(FALSE, data.bytes, sum.pos)

\* _read_and_check, from the unpacking of the checksum read (sum) on.
verify_checksum(data, sum) ==
    IF sum.exc # NoExc
    THEN sum
    ELSE IF sum.none
    \* struct.unpack('I', None)
    THEN Raised("TypeError", "a bytes-like object is required", sum.pos)
    ELSE IF u32(unpack(sum.bytes)) # masked_crc32c(data.bytes)
    THEN Raised("EventReadingError", "Invalid checksum", sum.pos)
    ELSE Returned(FALSE, data.bytes, sum.pos)

\* _read_and_check, after its first read (data).
check_data(s, data, stall2) ==
    IF data.exc # NoExc \/ data.none
    THEN data
    ELSE verify_checksum(data, read(s, data.pos, checksum_size, stall2))

\* EventsFileReader._read_and_check(size).  stall1 and stall2 are the
\* would-block answers of its two reads.
read_and_check(s, p, size, stall1, stall2) ==
    check_data(s, read(s, p, size, stall1), stall2)

\* ------------------------------------------------------------------------
\* Events.  The wire schema belongs to tensorboard's event_pb2, not to this
\* repository; the model uses a small stand-in encoding that keeps what the
\* reader relies on: the empty payload is the default Event (no summary),
\* a payload may fail to parse, and each Value carries a tag and at most
\* one of the fields simple_value and image.
\*   payload  = <<>> | <<h>> \o values      h: step = h \div 2,
\*                                             summary present iff h odd
\*   values   = codes of ValueTable
\* ------------------------------------------------------------------------

Value(tag, field, simple_value, encoded_image_string) ==
    [tag |-> tag, field |-> field, simple_value |-> simple_value,
     encoded_image_string |-> encoded_image_string]

\* The Values the stand-in encoding can express.  An image is "png" (the
\* codec decodes it), "garbage" (cv2.imdecode returns None) or "" (the
\* empty buffer, on which cv2.imdecode raises cv2.error).
ValueTable ==
    <<Value("loss", "simple_value", 0, ""),
      Value("acc", "simple_value", 7, ""),
      Value("loss", "image", 0, "png"),
      Value("acc", "image", 0, "garbage"),
      Value("acc", "image", 0, ""),
      Value("loss", "histo", 0, "")>>

DefaultEvent == [step |-> 0, wall_time |-> 0, has_summary |-> FALSE, values |-> <<>>]

\* Event().ParseFromString(event_raw): [ok, event]; ok is FALSE when the
\* schema library raises DecodeError.
ParseFromString(event_raw) ==
    IF event_raw = <<>>
    THEN [ok |-> TRUE, event |-> DefaultEvent]
    ELSE LET h == Head(event_raw)
             codes == Tail(event_raw)
             wellFormed == /\ \A i \in 1..Len(codes) : codes[i] \in 1..Len(ValueTable)
                           /\ (h % 2 = 0 => codes = <<>>)
         IN  IF wellFormed
             THEN [ok |-> TRUE,
                   event |-> [step |-> h \div 2, wall_time |-> 100 + h,
                              has_summary |-> (h % 2 = 1),
                              values |-> [i \in 1..Len(codes) |-> ValueTable[codes[i]]]]]
             ELSE [ok |-> FALSE, event |-> DefaultEvent]

\* One turn of the loop of EventsFileReader.__iter__, from the stream
\* position p up to its yield, its break or the exception it raises.
\* stalls[1..4] are the would-block answers of the four reads.
\* The result is [kind, exc, msg, event_raw, event, pos, parsed] with kind
\* "yield", "stop" or "raise"; parsed says whether ParseFromString was
\* called.
FramerResult(kind, exc, msg, event_raw, event, p, parsed) ==
    [kind |-> kind, exc |-> exc, msg |-> msg, event_raw |-> event_raw,
     event |-> event, pos |-> p, parsed |-> parsed]

\* __iter__, after ParseFromString.
iter_parsed(event_raw, parse) ==
    IF parse.ok
    THEN FramerResult("yield", NoExc, "", event_raw.bytes, parse.event, event_raw.pos, TRUE)
    ELSE FramerResult("raise", "DecodeError", "Error parsing message",
                      event_raw.bytes, DefaultEvent, event_raw.pos, TRUE)

\* __iter__, after the payload was read and checked (event_raw).
iter_payload(event_raw) ==
    IF event_raw.exc # NoExc
    THEN FramerResult("raise", event_raw.exc, event_raw.msg, <<>>, DefaultEvent,
                      event_raw.pos, FALSE)
    ELSE IF event_raw.none
    THEN FramerResult("raise", "EventReadingError", "Unexpected end of events file",
                      <<>>, DefaultEvent, event_raw.pos, FALSE)
    ELSE iter_parsed(event_raw, ParseFromString(event_raw.bytes))

\* __iter__, after the header was read and checked.
iter_header(s, stalls, header) ==
    IF header.exc # NoExc
    THEN FramerResult("raise", header.exc, header.msg, <<>>, DefaultEvent, header.pos, FALSE)
    ELSE IF header.none
    THEN FramerResult("stop", NoExc, "", <<>>, DefaultEvent, header.pos, FALSE)
    ELSE iter_payload(read_and_check(s, header.pos,
                                     unpack_size(header.bytes, Len(s.data) + 1),
                                     stalls[3], stalls[4]))

\* A variant of iter_events that reads the whole record first and compares
\* the checksum of the header afterwards.
late_header_check(payload, header) ==
    IF payload.kind = "raise" \/ header.exc = NoExc
    THEN payload
    ELSE FramerResult("raise", header.exc, header.msg, <<>>, DefaultEvent,
                      payload.pos, payload.parsed)

iter_sum_late(s, stalls, data, sum) ==
    late_header_check(iter_header(s, stalls, verify_checksum_unchecked(data, sum)),
                      verify_checksum(data, sum))

iter_header_late(s, stalls, data) ==
    IF data.exc # NoExc \/ data.none
    THEN iter_header(s, stalls, data)
    ELSE iter_sum_late(s, stalls, data, read(s, data.pos, checksum_size, stalls[2]))

iter_events_header_checked_late(s, p, stalls) ==
    iter_header_late(s, stalls, read(s, p, header_size, stalls[1]))

\* One turn of EventsFileReader.__iter__ from position p.
iter_events(s, p, stalls) ==
    iter_header(s, stalls, read_and_check(s, p, header_size, stalls[1], stalls[2]))

\* ------------------------------------------------------------------------
\* The decoders and SummaryReader's pure parts.
\*
\* A decoder answers [raised, none, data]: whether it raised, whether it
\* returned None, and the decoded data [py, repr] otherwise.
\* ------------------------------------------------------------------------

NoData == [py |-> "NoneType", repr |-> 0]

DecoderResult(raised, none, data) == [raised |-> raised, none |-> none, data |-> data]

\* _get_scalar(value)
get_scalar(value) ==
    IF value.field = "simple_value"
    THEN DecoderResult(FALSE, FALSE, [py |-> "float", repr |-> value.simple_value])
    ELSE DecoderResult(FALSE, TRUE, NoData)

\* cv2.imdecode(buf, cv2.IMREAD_COLOR).  Bytes the codec cannot decode give
\* None; the empty buffer gives None or raises cv2.error, depending on the
\* OpenCV build (emptyRaises).
imdecode(buf, emptyRaises) ==
    IF buf = "png" THEN DecoderResult(FALSE, FALSE, [py |-> "ndarray", repr |-> 1])
    ELSE IF buf = "" /\ emptyRaises THEN DecoderResult(TRUE, FALSE, NoData)
    ELSE DecoderResult(FALSE, TRUE, NoData)

\* _get_image(value)
get_image(value, emptyRaises) ==
    IF value.field = "image"
    THEN imdecode(value.encoded_image_string, emptyRaises)
    ELSE DecoderResult(FALSE, TRUE, NoData)

\* SummaryReader._DECODERS
DECODERS == <<"scalar", "image">>

DecoderNames == {DECODERS[i] : i \in 1..Len(DECODERS)}

decoder(value_type, value, emptyRaises) ==
    IF value_type = "scalar" THEN get_scalar(value) ELSE get_image(value, emptyRaises)

\* An optional set: None, or a set.
None == [none |-> TRUE, set |-> {}]
Some(S) == [none |-> FALSE, set |-> S]

\* A variant of check_type_names with any() for all().
check_type_names_any(type_filter) ==
    IF type_filter.none THEN FALSE
    ELSE ~ (\E type_name \in type_filter.set : type_name \in DecoderNames)

\* SummaryReader._check_type_names: TRUE when it raises ValueError.
check_type_names(type_filter) ==
    IF type_filter.none THEN FALSE
    ELSE ~ (\A type_name \in type_filter.set : type_name \in DecoderNames)

\* SummaryReader._check_tag
check_tag(tag_filter, tag) == tag_filter.none \/ tag \in tag_filter.set

\* SummaryReader._check_type
check_type(type_filter, event_type) == type_filter.none \/ event_type \in type_filter.set

SummaryItem(tag, step, wall_time, value, type) ==
    [tag |-> tag, step |-> step, wall_time |-> wall_time, value |-> value, type |-> type]

NoItem == SummaryItem("", 0, 0, NoData, "")

\* The orders in which a set of names can be iterated.
RECURSIVE Orders(_)
Orders(S) ==
    IF S = {} THEN {<<>>}
    ELSE UNION {{<<x>> \o o : o \in Orders(S \ {x})} : x \in S}

\* The type_list of _decode_events: the filter set in some iteration
\* order, or the keys of _DECODERS.
TypeLists(type_filter) ==
    IF type_filter.none THEN {DECODERS} ELSE Orders(type_filter.set)

\* A variant of decode_value without the test `data is not None`: the
\* first decoder of type_list makes the item.
decode_value_first(event, value, type_list, emptyRaises) ==
    IF type_list = <<>>
    THEN [kind |-> "none", item |-> NoItem]
    ELSE LET value_type == Head(type_list)
             data == decoder(value_type, value, emptyRaises)
         IN  IF data.raised
             THEN [kind |-> "raise", item |-> NoItem]
             ELSE [kind |-> "item",
                   item |-> SummaryItem(value.tag, event.step, event.wall_time,
                                        data.data, value_type)]

RECURSIVE decode_value(_, _, _, _)
\* The inner loop of _decode_events for one value: the first decoder of
\* type_list that returns data wins.  [kind, item]: "item", "none" (the
\* for-else: yield None) or "raise" (the codec raised).
decode_value(event, value, type_list, emptyRaises) ==
    IF type_list = <<>>
    THEN [kind |-> "none", item |-> NoItem]
    ELSE LET value_type == Head(type_list)
             data == decoder(value_type, value, emptyRaises)
         IN  IF data.raised
             THEN [kind |-> "raise", item |-> NoItem]
             ELSE IF ~ data.none
             THEN [kind |-> "item",
                   item |-> SummaryItem(value.tag, event.step, event.wall_time,
                                        data.data, value_type)]
             ELSE decode_value(event, value, Tail(type_list), emptyRaises)

\* A variant of passes that does not look at the tag.
passes_any_tag(tag_filter, type_filter, r) ==
    r.kind = "item" /\ check_type(type_filter, r.item.type)

\* The condition of the generator expression in SummaryReader.__iter__.
passes(tag_filter, type_filter, r) ==
    r.kind = "item" /\ check_tag(tag_filter, r.item.tag)
                    /\ check_type(type_filter, r.item.type)

\* File names are sequences of character codes; pathlib orders the paths of
\* one directory by their names, code point by code point.
RECURSIVE PathLess(_, _)
PathLess(a, b) ==
    IF a = <<>> THEN b # <<>>
    ELSE IF b = <<>> THEN FALSE
    ELSE IF a[1] # b[1] THEN a[1] < b[1]
    ELSE PathLess(Tail(a), Tail(b))

RECURSIVE sorted_descending(_)
\* A variant of sorted: the paths in descending order.
sorted_descending(S) ==
    IF S = {} THEN <<>>
    ELSE LET greatest == CHOOSE x \in S : \A y \in S \ {x} : PathLess(y, x)
         IN  <<greatest>> \o sorted_descending(S \ {greatest})

RECURSIVE sorted(_)
\* sorted(paths)
sorted(S) ==
    IF S = {} THEN <<>>
    ELSE LET least == CHOOSE x \in S : \A y \in S \ {x} : PathLess(x, y)
         IN  <<least>> \o sorted(S \ {least})

\* f for f in self._logdir.glob('*') if f.is_file()
glob_files(logdir) == {f \in DOMAIN logdir : logdir[f].is_file}

\* ------------------------------------------------------------------------
\* The inputs: streams and directories the reader may be given.
\* ------------------------------------------------------------------------

\* One record of the on-disk format:
\* [8 bytes length][masked crc of the length][payload][masked crc of it].
EncodeRecord(payload) ==
    LET length == pack(ToBits(Len(payload), 8 * header_size), header_size)
    IN  length \o pack(masked_crc32c(length), checksum_size)
               \o payload \o pack(masked_crc32c(payload), checksum_size)

RECURSIVE EncodeAll(_)
EncodeAll(payloads) ==
    IF payloads = <<>> THEN <<>>
    ELSE EncodeRecord(Head(payloads)) \o EncodeAll(Tail(payloads))

\* The sequences over S of length at most n.
ListsUpTo(S, n) == UNION {[1..k -> S] : k \in 0..n}

\* The stream cut to its first k bytes.
Cut(data, k) == SubSeq(data, 1, k)

\* The stream with the lowest bit of byte k flipped.
Flip(data, k) ==
    [data EXCEPT ![k] = IF data[k] % 2 = 0 THEN data[k] + 1 ELSE data[k] - 1]

\* A stream, and every way of cutting it short or flipping one bit in it:
\* [data, cut, flip] with cut the number of bytes kept (-1: not cut) and
\* flip the index of the damaged byte (0: none).
Damaged(data) ==
    {[data |-> data, cut |-> -1, flip |-> 0]}
    \cup {[data |-> Cut(data, k), cut |-> k, flip |-> 0] : k \in 0..(Len(data) - 1)}
    \cup {[data |-> Flip(data, k), cut |-> -1, flip |-> k] : k \in 1..Len(data)}

\* Payloads of the streams given to EventsFileReader directly: the empty
\* payload, an event without summary, an event with two values, and a
\* payload the schema rejects.
FramePayloads == {<<>>, <<2>>, <<5, 1, 3>>, <<3, 9>>}

\* Payloads of the files of the directories given to SummaryReader.
PipelinePayloads ==
    {<<>>,            \* the default event
     <<2>>,           \* step 1, no summary
     <<3>>,           \* step 1, a summary without values
     <<5, 1, 3>>,     \* loss: scalar 0; loss: image
     <<7, 4, 2>>,     \* acc: image the codec cannot decode; acc: scalar 7
     <<9, 6, 5>>,     \* loss: histogram; acc: image with an empty buffer
     <<3, 9>>}        \* not a message of the schema

NoStream == [data |-> <<>>, nonblocking |-> FALSE]

\* The names of the regular files of a directory, "b", "a" and "ab", and of
\* its subdirectory, "aa".
FileNames == <<<<2>>, <<1>>, <<1, 2>>>>

SubdirectoryName == <<1, 1>>

Subdirectory == [is_file |-> FALSE, records |-> <<>>, data |-> <<>>]

RegularFile(records) == [is_file |-> TRUE, records |-> records, data |-> EncodeAll(records)]

RECURSIVE FilesOver(_, _)
\* The ways of filling the files `names` with well-formed records, n
\* records in all at most.
FilesOver(names, n) ==
    IF names = <<>> THEN {<<>>}
    ELSE UNION {{(Head(names) :> RegularFile(r)) @@ d :
                    d \in FilesOver(Tail(names), n - Len(r))}
                : r \in ListsUpTo(PipelinePayloads, n)}

\* The directories: the three files, some of them empty, and a subdirectory.
Directories ==
    {(SubdirectoryName :> Subdirectory) @@ d : d \in FilesOver(FileNames, MaxRecords)}

\* What was written to the stream given to EventsFileReader: the payloads
\* of its records and the damage done afterwards.
Written(records, cut, flip) == [records |-> records, cut |-> cut, flip |-> flip]

NothingWritten == Written(<<>>, -1, 0)

\* EventsFileReader over a stream, damaged or not, blocking or not.
FramerScenarios ==
    UNION {{[api |-> "EventsFileReader", logdir |-> <<>>,
             stream |-> [data |-> d.data, nonblocking |-> FALSE],
             written |-> Written(r, d.cut, d.flip)] :
               d \in Damaged(EncodeAll(r))} \cup
           {[api |-> "EventsFileReader", logdir |-> <<>>,
             stream |-> [data |-> EncodeAll(r), nonblocking |-> TRUE],
             written |-> Written(r, -1, 0)]}
           : r \in ListsUpTo(FramePayloads, MaxRecords)}

\* SummaryReader over a directory.
PipelineScenarios ==
    {[api |-> "SummaryReader", logdir |-> d, stream |-> NoStream,
      written |-> NothingWritten] : d \in Directories}

Scenarios == FramerScenarios \cup PipelineScenarios

\* The (tag_filter, type_filter) arguments SummaryReader is constructed with.
FilterArguments ==
    {<<None, None>>,
     <<Some({"loss"}), None>>,
     <<None, Some({"scalar"})>>,
     <<None, Some({"image"})>>,
     <<Some({"acc"}), Some({"scalar", "image"})>>,
     <<None, Some({})>>,
     <<None, Some({"audio"})>>,
     <<Some({"loss"}), Some({"scalar", "audio"})>>}

\* ------------------------------------------------------------------------
\* The state machine.
\* ------------------------------------------------------------------------

VARIABLES
    api,          \* the class the consumer uses
    logdir,       \* the directory: name -> [is_file, records, data]
    written,      \* what the stream given to EventsFileReader was made of
    stream,       \* the stream the framer reads
    pos,          \* its read position
    pc,           \* where the reader stands
    tag_filter,   \* self._tag_filter
    type_filter,  \* self._type_filter
    log_files,    \* the sorted list of __iter__
    file_index,   \* how many of log_files the for loop has taken
    open_files,   \* the names of the files with an open handle
    opened,       \* history: the files opened, in order
    event,        \* the event _decode_events works on
    value_index,  \* the index of its current value
    framed,       \* history: the events the framer yielded, [file, event_raw]
    parsed,       \* history: the payloads given to ParseFromString
    emitted,      \* history: the items handed to the consumer, [file, item]
    exc,          \* the class of the exception the consumer got, or ""
    msg,          \* its message
    stalls,       \* history: the would-block answers the stream gave to the
                  \* four reads of the framer's last turn
    crc_input,    \* the bytes given to _masked_crc32c
    crc_masked    \* what it returned, <<>> before the call

vars == <<api, logdir, written, stream, pos, pc, tag_filter, type_filter, log_files,
          file_index, open_files, opened, event, value_index, framed, parsed,
          emitted, exc, msg, stalls, crc_input, crc_masked>>

NoFile == <<>>

NoStalls == [i \in 1..4 |-> FALSE]

Init ==
    \E sc \in Scenarios :
        /\ api = sc.api
        /\ logdir = sc.logdir
        /\ written = sc.written
        /\ stream = sc.stream
        /\ pos = 0
        /\ pc = IF sc.api = "EventsFileReader" THEN "iterating" ELSE "new"
        /\ tag_filter = None
        /\ type_filter = None
        /\ log_files = <<>>
        /\ file_index = 0
        /\ open_files = {}
        /\ opened = <<>>
        /\ event = DefaultEvent
        /\ value_index = 0
        /\ framed = <<>>
        /\ parsed = <<>>
        /\ emitted = <<>>
        /\ exc = NoExc
        /\ msg = ""
        /\ stalls = NoStalls
        /\ crc_input = <<>>
        /\ crc_masked = <<>>

\* The would-block answers a stream may give to the four reads of one
\* record: a blocking stream gives none; a non-blocking one may stall at
\* any one of them.
StallChoices(s) ==
    IF s.nonblocking
    THEN {[i \in 1..4 |-> i = k] : k \in 0..4}
    ELSE {NoStalls}

\* The name of the file the for loop of SummaryReader.__iter__ stands at.
file_path == IF file_index = 0 THEN NoFile ELSE log_files[file_index]

\* A variant of AfterValue that goes back to the framer after every value.
AfterValue_next_event(e, i) == "for_event"

\* Where _decode_events goes after the value at index i of event e: to the
\* next value, or back to the framer for the next event.
AfterValue(e, i) == IF i < Len(e.values) THEN "for_value" ELSE "for_event"

\* What one turn of the framer, with result r, does to the framer's state.
FramerTurn(r, file) ==
    /\ pos' = r.pos
    /\ parsed' = IF r.parsed THEN Append(parsed, r.event_raw) ELSE parsed
    /\ framed' = IF r.kind = "yield"
                 THEN Append(framed, [file |-> file, event_raw |-> r.event_raw])
                 ELSE framed
    /\ event' = IF r.kind = "yield" THEN r.event ELSE event
    /\ exc' = IF r.kind = "raise" THEN r.exc ELSE exc
    /\ msg' = IF r.kind = "raise" THEN r.msg ELSE msg

\* The consumer takes the next event of EventsFileReader(stream).
FramerNextTurn(r) ==
    /\ FramerTurn(r, NoFile)
    /\ pc' = IF r.kind = "yield" THEN pc
             ELSE IF r.kind = "stop" THEN "done" ELSE "failed"

FramerNext ==
    /\ api = "EventsFileReader"
    /\ pc = "iterating"
    /\ \E answers \in StallChoices(stream) :
         /\ stalls' = answers
         /\ FramerNextTurn(iter_events(stream, pos, answers))
    /\ UNCHANGED <<api, crc_input, crc_masked, logdir, written, stream, tag_filter, type_filter, log_files,
                   file_index, open_files, opened, value_index, emitted>>

\* SummaryReader.__init__(logdir, tag_filter, type_filter)
Construct ==
    /\ api = "SummaryReader"
    /\ pc = "new"
    /\ \E args \in FilterArguments :
         /\ tag_filter' = args[1]
         /\ type_filter' = args[2]
         /\ IF check_type_names(args[2])
            THEN /\ pc' = "failed"
                 /\ exc' = "ValueError"
                 /\ msg' = "Invalid type filter"
            ELSE /\ pc' = "constructed"
                 /\ UNCHANGED <<exc, msg>>
    /\ UNCHANGED <<api, crc_input, crc_masked, stalls, logdir, written, stream, pos, log_files, file_index, open_files,
                   opened, event, value_index, framed, parsed, emitted>>

\* The consumer asks the generator of SummaryReader.__iter__ for an item:
\* the first time the generator lists and sorts the directory; later it
\* resumes after the yield, at the break of the decoder loop.
Pull ==
    /\ api = "SummaryReader"
    /\ \/ /\ pc = "constructed"
          /\ log_files' = sorted(glob_files(logdir))
          /\ pc' = "for_file"
          /\ UNCHANGED value_index
       \/ /\ pc = "yielded"
          /\ pc' = AfterValue(event, value_index)
          /\ value_index' = value_index + 1
          /\ UNCHANGED log_files
    /\ UNCHANGED <<api, crc_input, crc_masked, stalls, logdir, written, stream, pos, tag_filter, type_filter, file_index,
                   open_files, opened, event, framed, parsed, emitted, exc, msg>>

\* for file_path in log_files: with open(file_path, 'rb') as f; the
\* generator returns when the list is exhausted.
OpenFile ==
    /\ pc = "for_file"
    /\ IF file_index < Len(log_files)
       THEN LET f == log_files[file_index + 1]
            IN  /\ file_index' = file_index + 1
                /\ open_files' = open_files \cup {f}
                /\ opened' = Append(opened, f)
                /\ stream' = [data |-> logdir[f].data, nonblocking |-> FALSE]
                /\ pos' = 0
                /\ pc' = "for_event"
       ELSE /\ pc' = "done"
            /\ UNCHANGED <<file_index, open_files, opened, stream, pos>>
    /\ UNCHANGED <<api, crc_input, crc_masked, stalls, logdir, written, tag_filter, type_filter, log_files, event,
                   value_index, framed, parsed, emitted, exc, msg>>

\* A variant of NextEventTurn that reads the files without a with block:
\* the file stays open when the framer is done with it.
NextEventTurn_leaving_open(r) ==
    /\ FramerTurn(r, file_path)
    /\ value_index' = IF r.kind = "yield" THEN 1 ELSE value_index
    /\ open_files' = open_files
    /\ pc' = IF r.kind = "yield" THEN AfterValue(r.event, 0)
             ELSE IF r.kind = "stop" THEN "for_file" ELSE "failed"

\* A variant of NextEventTurn that gives up the file the framer failed on
\* and goes on with the next one.
NextEventTurn_skipping(r) ==
    /\ FramerTurn(r, file_path)
    /\ value_index' = IF r.kind = "yield" THEN 1 ELSE value_index
    /\ open_files' = IF r.kind = "yield" THEN open_files ELSE open_files \ {file_path}
    /\ pc' = IF r.kind = "yield" THEN AfterValue(r.event, 0) ELSE "for_file"

\* for event in events: the framer reads the next record of the open file.
\* At the end of the file the with block closes it; an exception leaves
\* through the with block, which closes the file, and reaches the consumer.
\* (For an event without summary _decode_events yields a None, which the
\* generator expression of __iter__ drops.)
NextEventTurn(r) ==
    /\ FramerTurn(r, file_path)
    /\ value_index' = IF r.kind = "yield" THEN 1 ELSE value_index
    /\ open_files' = IF r.kind = "yield" THEN open_files ELSE open_files \ {file_path}
    /\ pc' = IF r.kind = "yield" THEN AfterValue(r.event, 0)
             ELSE IF r.kind = "stop" THEN "for_file" ELSE "failed"

NextEvent ==
    /\ pc = "for_event"
    /\ NextEventTurn(iter_events(stream, pos, NoStalls))
    /\ UNCHANGED <<api, crc_input, crc_masked, stalls, logdir, written, stream, tag_filter, type_filter, log_files,
                   file_index, opened, emitted>>

\* for value in event.summary.value: the decoders are tried on the current
\* value; an item that passes the filters is yielded to the consumer.
DecodeValueTurn(r) ==
    IF r.kind = "raise"
    THEN /\ open_files' = open_files \ {file_path}
         /\ pc' = "failed"
         /\ exc' = "cv2.error"
         /\ msg' = "imdecode"
         /\ UNCHANGED <<value_index, emitted>>
    ELSE IF passes(tag_filter, type_filter, r)
    THEN /\ emitted' = Append(emitted, [file |-> file_path, item |-> r.item])
         /\ pc' = "yielded"
         /\ UNCHANGED <<value_index, open_files, exc, msg>>
    ELSE /\ pc' = AfterValue(event, value_index)
         /\ value_index' = value_index + 1
         /\ UNCHANGED <<emitted, open_files, exc, msg>>

DecodeValue ==
    /\ pc = "for_value"
    /\ \E type_list \in TypeLists(type_filter), emptyRaises \in BOOLEAN :
         DecodeValueTurn(decode_value(event, event.values[value_index],
                                      type_list, emptyRaises))
    /\ UNCHANGED <<api, crc_input, crc_masked, stalls, logdir, written, stream, pos, tag_filter, type_filter, log_files,
                   file_index, opened, event, framed, parsed>>

\* A variant of Close in which the file is opened without a with block.
Close_leaving_open ==
    /\ api = "SummaryReader"
    /\ pc \in {"constructed", "yielded"}
    /\ pc' = "closed"
    /\ UNCHANGED <<api, crc_input, crc_masked, stalls, logdir, written, stream, pos, tag_filter, type_filter, log_files,
                   file_index, open_files, opened, event, value_index, framed, parsed,
                   emitted, exc, msg>>

\* The consumer abandons the iteration: generator.close() raises
\* GeneratorExit at the yield, and the with block closes the open file.
Close ==
    /\ api = "SummaryReader"
    /\ pc \in {"constructed", "yielded"}
    /\ pc' = "closed"
    /\ open_files' = open_files \ {file_path}
    /\ UNCHANGED <<api, crc_input, crc_masked, stalls, logdir, written, stream, pos, tag_filter, type_filter, log_files,
                   file_index, opened, event, value_index, framed, parsed,
                   emitted, exc, msg>>

Next ==
    \/ FramerNext
    \/ Construct
    \/ Pull
    \/ OpenFile
    \/ NextEvent
    \/ DecodeValue
    \/ Close

Spec == Init /\ [][Next]_vars

\* ------------------------------------------------------------------------
\* _masked_crc32c on its own: a caller gives it bytes and takes the result.
\* ------------------------------------------------------------------------

\* The longest input given to _masked_crc32c on its own.
MaxInputLen == 2

\* The bytes its inputs are made of.
InputBytes == {0, 1, 2, 97, 127, 128, 200, 255}

MaskInputs == ListsUpTo(InputBytes, MaxInputLen)

MaskInit ==
    /\ api = "masked_crc32c"
    /\ crc_input \in MaskInputs
    /\ crc_masked = <<>>
    /\ logdir = <<>>
    /\ written = NothingWritten
    /\ stream = NoStream
    /\ pos = 0
    /\ pc = "call"
    /\ tag_filter = None
    /\ type_filter = None
    /\ log_files = <<>>
    /\ file_index = 0
    /\ open_files = {}
    /\ opened = <<>>
    /\ event = DefaultEvent
    /\ value_index = 0
    /\ framed = <<>>
    /\ parsed = <<>>
    /\ emitted = <<>>
    /\ exc = NoExc
    /\ msg = ""
    /\ stalls = NoStalls

\* _masked_crc32c(crc_input)
MaskCall ==
    /\ api = "masked_crc32c"
    /\ pc = "call"
    /\ crc_masked' = masked_crc32c(crc_input)
    /\ pc' = "returned"
    /\ UNCHANGED <<api, crc_input, logdir, written, stream, pos, tag_filter, type_filter,
                   log_files, file_index, open_files, opened, event, value_index, framed,
                   parsed, emitted, exc, msg, stalls>>

MaskNext == MaskCall

MaskSpec == MaskInit /\ [][MaskNext]_vars

\* ------------------------------------------------------------------------
\* Properties of the framer.
\* ------------------------------------------------------------------------

\* The payloads of the events the framer yielded.
Payloads(f) == [i \in 1..Len(f) |-> f[i].event_raw]

\* Every payload of the list is a message of the schema.
AllParse(records) == \A i \in 1..Len(records) : ParseFromString(records[i]).ok

\* The length of the record that carries a payload.
RecordLen(payload) == header_size + checksum_size + Len(payload) + checksum_size

RECURSIVE Offset(_, _)
\* The offset at which the first j records of the list end.
Offset(records, j) ==
    IF j = 0 THEN 0 ELSE Offset(records, j - 1) + RecordLen(records[j])

\* The number of complete records in the first k bytes of the stream.
CompleteBefore(records, k) ==
    Cardinality({j \in 1..Len(records) : Offset(records, j) <= k})

\* The framer is over: the iteration ended or raised.
FramerOver == api = "EventsFileReader" /\ pc \in {"done", "failed"}

\* A well-formed stream of messages of the schema on a blocking stream.
WellFormedStream ==
    /\ api = "EventsFileReader"
    /\ ~ stream.nonblocking
    /\ written.flip = 0
    /\ AllParse(written.records)

\* C1: every well-formed stream, of payloads of any length, is read back as
\* exactly its payloads, in order, and the iteration then ends normally.
C1_RoundTrip ==
    (WellFormedStream /\ written.cut = -1 /\ FramerOver)
        => (pc = "done" /\ exc = NoExc /\ Payloads(framed) = written.records)

\* The framer is about to read a record from a blocking stream.
FramerAtRecord == pc \in {"iterating", "for_event"} /\ ~ stream.nonblocking

\* At position p of the stream s stands a record with a valid header whose
\* payload and payload checksum are all there, and the stored payload
\* checksum is not the masked checksum of the payload.
PayloadChecksumDiffers(s, p) ==
    /\ Len(s.data) >= p + header_size + checksum_size
    /\ LET length == SubSeq(s.data, p + 1, p + header_size)
           start == p + header_size + checksum_size
       IN  /\ u32(unpack(SubSeq(s.data, p + header_size + 1, start)))
                = masked_crc32c(length)
           /\ LET L == unpack_size(length, Len(s.data) + 1)
              IN  /\ Len(s.data) >= start + L + checksum_size
                  /\ u32(unpack(SubSeq(s.data, start + L + 1, start + L + checksum_size)))
                       # masked_crc32c(SubSeq(s.data, start + 1, start + L))

\* C2: when the stored payload checksum of the record differs from the
\* masked checksum of its payload, reading raises EventReadingError, the
\* payload is not given to the schema parser and no event is yielded.
C2_CorruptionDetected ==
    [][(FramerAtRecord /\ PayloadChecksumDiffers(stream, pos))
          => /\ pc' = "failed"
             /\ exc' = "EventReadingError"
             /\ parsed' = parsed
             /\ framed' = framed
             /\ emitted' = emitted]_vars

\* Witness of C2: a bit was flipped in the payload or the payload checksum
\* of record j, and reading failed there, after j - 1 events.
C2_Witness ==
    /\ api = "EventsFileReader"
    /\ pc = "failed"
    /\ msg = "Invalid checksum"
    /\ \E j \in 1..Len(written.records) :
         /\ Len(framed) = j - 1
         /\ written.flip > Offset(written.records, j - 1) + header_size + checksum_size
         /\ written.flip <= Offset(written.records, j)
         /\ pos = Offset(written.records, j)

\* C3: at a record boundary, a stream with no byte left ends the iteration
\* normally with no further event and no error; a stream with 1 to 7 bytes
\* left raises EventReadingError.
C3_HeaderTruncation ==
    [][FramerAtRecord
          => LET left == Len(stream.data) - pos
             IN  /\ left = 0 => /\ pc' = IF api = "EventsFileReader" THEN "done" ELSE "for_file"
                                /\ exc' = NoExc
                                /\ framed' = framed
                                /\ emitted' = emitted
                 /\ left \in 1..(header_size - 1)
                       => /\ pc' = "failed"
                          /\ exc' = "EventReadingError"
                          /\ framed' = framed]_vars

\* Witness of C3: the stream was cut 1 to 7 bytes into the header of its
\* second record, and reading failed after the first event.
C3_Witness ==
    /\ api = "EventsFileReader"
    /\ pc = "failed"
    /\ exc = "EventReadingError"
    /\ Len(framed) = 1
    /\ written.cut - Offset(written.records, 1) \in 1..(header_size - 1)

\* The stream was cut at an offset that is not a record boundary.
CutInsideRecord ==
    /\ written.cut >= 0
    /\ \A j \in 0..Len(written.records) : Offset(written.records, j) # written.cut

\* C4: a well-formed stream cut inside a record never ends normally: the
\* iteration raises, after yielding exactly the complete records before
\* the cut.
C4_CutIsError ==
    (WellFormedStream /\ CutInsideRecord /\ FramerOver)
        => /\ pc = "failed"
           /\ Payloads(framed)
                = SubSeq(written.records, 1, CompleteBefore(written.records, written.cut))

\* ------------------------------------------------------------------------
\* Properties of SummaryReader.
\* ------------------------------------------------------------------------

\* The names of the regular files in ascending order: "a" < "ab" < "b".
AscendingNames == <<<<1>>, <<1, 2>>, <<2>>>>

\* The place of a file name in that order.
Rank(f) == CHOOSE i \in 1..Len(AscendingNames) : AscendingNames[i] = f

IsPrefix(a, b) == Len(a) <= Len(b) /\ a = SubSeq(b, 1, Len(a))

RECURSIVE Flatten(_)
Flatten(ss) == IF ss = <<>> THEN <<>> ELSE Head(ss) \o Flatten(Tail(ss))

\* The item a value decodes to, if any: a scalar, or an image the codec
\* can decode.
ItemsOfValue(e, v) ==
    IF v.field = "simple_value"
    THEN <<SummaryItem(v.tag, e.step, e.wall_time,
                       [py |-> "float", repr |-> v.simple_value], "scalar")>>
    ELSE IF v.field = "image" /\ v.encoded_image_string = "png"
    THEN <<SummaryItem(v.tag, e.step, e.wall_time, [py |-> "ndarray", repr |-> 1], "image")>>
    ELSE <<>>

\* The decoded items of one record of a file, each with its file.
ItemsOfRecord(rec) ==
    LET e == ParseFromString(rec.event_raw).event
        items == Flatten([i \in 1..Len(e.values) |-> ItemsOfValue(e, e.values[i])])
    IN  [i \in 1..Len(items) |-> [file |-> rec.file, item |-> items[i]]]

ItemsOfRecords(recs) == Flatten([i \in 1..Len(recs) |-> ItemsOfRecord(recs[i])])

\* The records of the directory, file by file in ascending order.
AllRecords ==
    Flatten([k \in 1..Len(AscendingNames) |->
                LET f == AscendingNames[k]
                IN  [i \in 1..Len(logdir[f].records) |->
                        [file |-> f, event_raw |-> logdir[f].records[i]]]])

\* An item is kept by the filters the reader was constructed with.
Kept(x) ==
    /\ tag_filter.none \/ x.item.tag \in tag_filter.set
    /\ type_filter.none \/ x.item.type \in type_filter.set

\* The decoder of images is tried on the values.
ImageActive == type_filter.none \/ "image" \in type_filter.set

Iterating == api = "SummaryReader" /\ pc \notin {"new"}

\* C5: a type_filter with a name outside {scalar, image} makes the
\* construction raise ValueError, before the directory is listed or a file
\* opened; no other type_filter makes it raise.
C5_InvalidConfiguration ==
    Iterating =>
        IF ~ type_filter.none /\ ~ (type_filter.set \subseteq {"scalar", "image"})
        THEN /\ pc = "failed"
             /\ exc = "ValueError"
             /\ log_files = <<>>
             /\ opened = <<>>
             /\ open_files = {}
        ELSE exc # "ValueError"

\* Witness of C5: the construction with a filter naming "audio" failed.
C5_Witness ==
    /\ api = "SummaryReader"
    /\ pc = "failed"
    /\ exc = "ValueError"
    /\ "audio" \in type_filter.set
    /\ opened = <<>>

\* C6: the items handed to the consumer are the decoded items of the
\* directory that the filters keep, in their order; the scan ends with all
\* of them, and no failure comes from the filtering.
C6_FilteringCorrect ==
    Iterating =>
        /\ IsPrefix(emitted, SelectSeq(ItemsOfRecords(AllRecords), Kept))
        /\ \A i \in 1..Len(emitted) : Kept(emitted[i])
        /\ pc = "done" => emitted = SelectSeq(ItemsOfRecords(AllRecords), Kept)
        /\ pc = "failed" =>
             \/ exc \in {"ValueError", "EventReadingError", "DecodeError"}
             \/ /\ exc = "cv2.error"
                /\ ImageActive
                /\ event.values[value_index].field = "image"
                /\ event.values[value_index].encoded_image_string = ""

\* Witness of C6: a scan that ended after a filter dropped some decoded
\* items and kept others.
C6_Witness ==
    /\ api = "SummaryReader"
    /\ pc = "done"
    /\ emitted # <<>>
    /\ Len(emitted) < Len(ItemsOfRecords(AllRecords))
    /\ ~ tag_filter.none

\* C7: the files are opened in ascending order of their names, and the
\* items of a file come before the items of every later file.
C7_FileOrder ==
    Iterating =>
        /\ IsPrefix(opened, AscendingNames)
        /\ \A i, j \in 1..Len(emitted) :
             i < j => Rank(emitted[i].file) <= Rank(emitted[j].file)

\* Witness of C7: items of two files were handed to the consumer.
C7_Witness ==
    /\ api = "SummaryReader"
    /\ \E i, j \in 1..Len(emitted) : i < j /\ emitted[i].file # emitted[j].file

\* The state in which a failure of the framer or of the parser leaves the
\* scan: the records before the failing one were framed and their items
\* emitted, the failing file is the last one opened and it is closed.
FailedAtRecord ==
    /\ pc = "failed"
    /\ exc # NoExc
    /\ framed = SubSeq(AllRecords, 1, Len(framed))
    /\ emitted = SelectSeq(ItemsOfRecords(framed), Kept)
    /\ Len(framed) < Len(AllRecords)
    /\ opened = SubSeq(AscendingNames, 1, Rank(AllRecords[Len(framed) + 1].file))
    /\ open_files = {}

\* C8: when the framing or the parsing of a record raises, the exception
\* reaches the consumer at once and ends the scan: the items of all records
\* before it have been emitted, none of the failing record or a later one,
\* and no later file is opened.
C8_FailFast ==
    [][/\ (pc = "for_event" /\ iter_events(stream, pos, NoStalls).kind = "raise")
            => FailedAtRecord'
       /\ pc = "failed" => FALSE]_vars

\* Witness of C8: the scan failed in the first file after an item was
\* emitted, and the later files were not opened.
C8_Witness ==
    /\ api = "SummaryReader"
    /\ pc = "failed"
    /\ exc = "DecodeError"
    /\ emitted # <<>>
    /\ opened = <<AscendingNames[1]>>
    /\ \A k \in 2..Len(AscendingNames) : logdir[AscendingNames[k]].is_file

\* C9: a file is closed when it is exhausted, when reading it raises and
\* when the consumer closes the iteration; after a failure or a close no
\* file is opened.
C9_HandleRelease ==
    [][/\ pc' \in {"for_file", "done", "failed", "closed"} => open_files' = {}
       /\ pc \in {"failed", "closed"} => (opened' = opened /\ open_files' = {})]_vars

\* Witness of C9: the consumer closed the iteration while the first file
\* was open; the file is closed and the others were never opened.
C9_Witness ==
    /\ api = "SummaryReader"
    /\ pc = "closed"
    /\ Len(opened) = 1
    /\ emitted # <<>>
    /\ open_files = {}

\* C10: when the value at hand carries an image the codec cannot decode
\* and the image decoder is active, the iteration fails with the decode
\* failure; the value is not dropped.
C10_ImageDecodeFailure ==
    [][(/\ pc = "for_value"
        /\ ImageActive
        /\ event.values[value_index].field = "image"
        /\ event.values[value_index].encoded_image_string # "png")
          => pc' = "failed"]_vars

\* ------------------------------------------------------------------------
\* Further properties of the framer.
\* ------------------------------------------------------------------------

\* The bytes of stream s from position p (counted from 0) up to q.
Bytes(s, p, q) == SubSeq(s.data, p + 1, q)

\* The bytes left in stream s at position p.
Left(s, p) == Len(s.data) - p

\* The length the 8 bytes at position p declare (at most one more than the
\* stream holds).
DeclaredLength(s, p) == unpack_size(Bytes(s, p, p + header_size), Len(s.data) + 1)

\* The 12 bytes at position p are a length and its checksum.
HeaderChecksumAgrees(s, p) ==
    /\ Left(s, p) >= header_size + checksum_size
    /\ u32(unpack(Bytes(s, p + header_size, p + header_size + checksum_size)))
         = masked_crc32c(Bytes(s, p, p + header_size))

\* The position of the k-th read of the record at position p: the length,
\* the checksum of the header, the payload, the checksum of the payload.
ReadPosition(s, p, k) ==
    IF k = 1 THEN p
    ELSE IF k = 2 THEN p + header_size
    ELSE IF k = 3 THEN p + header_size + checksum_size
    ELSE p + header_size + checksum_size + DeclaredLength(s, p)

\* The framer, reading the record at position p, comes to its k-th read:
\* the reads before it gave what they were asked for.
ReadPerformed(s, p, k) ==
    /\ k >= 2 => Left(s, p) >= header_size
    /\ k >= 3 => HeaderChecksumAgrees(s, p)
    /\ k >= 4 => /\ DeclaredLength(s, p) > 0
                 /\ Left(s, p) >= header_size + checksum_size + DeclaredLength(s, p)

\* C11: when one of the four reads of a record answers None (the stream
\* would block), the iteration fails with NotImplementedError at that read:
\* it does not end normally, reads nothing more, yields no record and
\* parses nothing.
C11_NonBlockingRejected ==
    [][\A k \in 1..4 :
         (/\ api = "EventsFileReader"
          /\ pc = "iterating"
          /\ stalls'[k]
          /\ ReadPerformed(stream, pos, k))
            => /\ pc' = "failed"
               /\ exc' = "NotImplementedError"
               /\ exc' # "EventReadingError"
               /\ pos' = ReadPosition(stream, pos, k)
               /\ framed' = framed
               /\ parsed' = parsed]_vars

\* Witness of C11: after one record was yielded, the read of the payload
\* checksum of the next one would block and the iteration failed.
C11_Witness ==
    /\ api = "EventsFileReader"
    /\ stream.nonblocking
    /\ pc = "failed"
    /\ exc = "NotImplementedError"
    /\ stalls[4]
    /\ Len(framed) = 1
    /\ pos > RecordLen(written.records[1])

\* ------------------------------------------------------------------------
\* Further properties of SummaryReader.
\* ------------------------------------------------------------------------

\* The records of the open file the framer has yielded so far.
FramedOfFile == SelectSeq(framed, LAMBDA x : x.file = file_path)

\* The framer stands before a record of the open file.
AtRecord ==
    /\ api = "SummaryReader"
    /\ pc = "for_event"
    /\ Len(FramedOfFile) < Len(logdir[file_path].records)

\* The payload of that record.
NextRecord == logdir[file_path].records[Len(FramedOfFile) + 1]

\* An event without measurements: it has no summary, or a summary whose
\* list of values is empty.
MissingMeasurement(payload) ==
    /\ ParseFromString(payload).ok
    /\ ParseFromString(payload).event.values = <<>>

\* C12: an event without summary, or with an empty list of values, yields
\* no item and raises nothing; the reader goes on to the record after it.
C12_MissingMeasurement ==
    [][(AtRecord /\ MissingMeasurement(NextRecord))
         => /\ pc' = "for_event"
            /\ pos' = pos + RecordLen(NextRecord)
            /\ framed' = Append(framed, [file |-> file_path, event_raw |-> NextRecord])
            /\ emitted' = emitted
            /\ exc' = NoExc
            /\ open_files' = open_files]_vars

\* Item x was made from value v of event e by the decoder its type names.
MadeFrom(x, e, v) ==
    /\ x.tag = v.tag
    /\ x.step = e.step
    /\ x.wall_time = e.wall_time
    /\ x.type = "scalar" =>
         /\ v.field = "simple_value"
         /\ x.value = [py |-> "float", repr |-> v.simple_value]
    /\ x.type = "image" =>
         /\ v.field = "image"
         /\ x.value.py = "ndarray"

\* C13: every item handed to the consumer has a value, a type that names
\* the decoder the value came from, and the tag, step and wall_time of a
\* value of an event of its file.
C13_ItemInvariant ==
    \A i \in 1..Len(emitted) :
        LET x == emitted[i].item
        IN  /\ x.value # NoData
            /\ x.value.py # "NoneType"
            /\ x.type \in DecoderNames
            /\ \E j \in 1..Len(framed) :
                 /\ framed[j].file = emitted[i].file
                 /\ LET e == ParseFromString(framed[j].event_raw).event
                    IN  \E k \in 1..Len(e.values) : MadeFrom(x, e, e.values[k])

\* Witness of C13: a scalar with the value 0 and an image have been handed
\* to the consumer.
C13_Witness ==
    /\ api = "SummaryReader"
    /\ \E i, j \in 1..Len(emitted) :
         /\ emitted[i].item.type = "scalar"
         /\ emitted[i].item.value.repr = 0
         /\ emitted[j].item.type = "image"

\* A turn of the framer starts at a record boundary of a blocking stream.
FramerTurnStarts == pc \in {"iterating", "for_event"} /\ ~ stream.nonblocking

\* The layout of the record a turn has yielded from position p: 8 bytes of
\* length, the checksum of them, the payload of that length, its checksum.
YieldedInOrder(s, p, q, event_raw) ==
    /\ HeaderChecksumAgrees(s, p)
    /\ event_raw = Bytes(s, p + header_size + checksum_size,
                         p + header_size + checksum_size + DeclaredLength(s, p))
    /\ Len(event_raw) = DeclaredLength(s, p)
    /\ q = p + RecordLen(event_raw)
    /\ u32(unpack(Bytes(s, q - checksum_size, q))) = masked_crc32c(event_raw)

\* C14: a record is yielded only from a length, a header checksum that
\* agrees with it, the payload of the declared length and the payload
\* checksum, read in this order; when the header checksum disagrees, the
\* error is raised with the stream 12 bytes on, before a byte of the
\* payload is read, and nothing is yielded or parsed.
C14_FramingOrder ==
    [][FramerTurnStarts =>
         /\ (Left(stream, pos) >= header_size + checksum_size
               /\ ~ HeaderChecksumAgrees(stream, pos))
              => /\ pc' = "failed"
                 /\ exc' = "EventReadingError"
                 /\ msg' = "Invalid checksum"
                 /\ pos' = pos + header_size + checksum_size
                 /\ framed' = framed
                 /\ parsed' = parsed
         /\ framed' # framed
              => /\ Len(framed') = Len(framed) + 1
                 /\ YieldedInOrder(stream, pos, pos', framed'[Len(framed')].event_raw)]_vars

\* Witness of C14: one record was yielded, the header checksum of the
\* second one is damaged, and the iteration failed 12 bytes into it.
C14_Witness ==
    /\ api = "EventsFileReader"
    /\ Len(written.records) = 2
    /\ written.flip > RecordLen(written.records[1]) + header_size
    /\ written.flip <= RecordLen(written.records[1]) + header_size + checksum_size
    /\ pc = "failed"
    /\ msg = "Invalid checksum"
    /\ Len(framed) = 1
    /\ pos = RecordLen(written.records[1]) + header_size + checksum_size

\* The decoder that answers for the payload kind of a value, "" for a kind
\* without decoder.
KindOf(v) ==
    IF v.field = "simple_value" THEN "scalar"
    ELSE IF v.field = "image" THEN "image" ELSE ""

\* The decoders tried on the values: the type selection of the reader.
ActiveTypes == IF type_filter.none THEN DecoderNames ELSE type_filter.set

\* The value _decode_events stands at.
CurrentValue == event.values[value_index]

\* C15: a value whose payload kind is in the active type selection yields
\* exactly one item, made from it; a value of another kind yields none and
\* raises nothing; the values are taken in their order.  (Stated for the
\* values whose tag the tag filter lets through, so that the item reaches
\* the consumer.)
C15_OneToOne ==
    [][(api = "SummaryReader" /\ pc = "for_value")
         => IF KindOf(CurrentValue) \in ActiveTypes
            THEN check_tag(tag_filter, CurrentValue.tag)
                   => /\ pc' = "yielded"
                      /\ Len(emitted') = Len(emitted) + 1
                      /\ SubSeq(emitted', 1, Len(emitted)) = emitted
                      /\ emitted'[Len(emitted')].file = file_path
                      /\ emitted'[Len(emitted')].item.type = KindOf(CurrentValue)
                      /\ MadeFrom(emitted'[Len(emitted')].item, event, CurrentValue)
                      /\ value_index' = value_index
            ELSE /\ emitted' = emitted
                 /\ exc' = NoExc
                 /\ pc' = AfterValue(event, value_index)
                 /\ value_index' = value_index + 1]_vars

\* The items of a list of records that the filters keep.
KeptItems(recs) == SelectSeq(ItemsOfRecords(recs), Kept)

\* The records of the files that come before file f.
RecordsBefore(f) == SelectSeq(AllRecords, LAMBDA x : Rank(x.file) < Rank(f))

\* C16: the reader has read the open file exactly up to the end of the
\* record in flight; when a record is read, every item of the records
\* before it has been handed to the consumer; when a file is opened, every
\* record of the files before it has been read and its items handed over.
C16_Laziness ==
    (api = "SummaryReader" /\ opened # <<>> /\ pc # "failed") =>
        /\ framed = SubSeq(AllRecords, 1, Len(framed))
        /\ Len(framed) >= Len(RecordsBefore(file_path))
        /\ Len(framed) = Len(RecordsBefore(file_path)) + Len(FramedOfFile)
        /\ pc \in {"for_event", "for_value", "yielded", "closed"} =>
             pos = Offset(logdir[file_path].records, Len(FramedOfFile))
        /\ IsPrefix(emitted, KeptItems(framed))
        /\ pc \in {"for_event", "for_file", "done"} => emitted = KeptItems(framed)
        /\ pc \in {"for_value", "yielded", "closed"} =>
             IsPrefix(KeptItems(SubSeq(framed, 1, Len(framed) - 1)), emitted)

\* Witness of C16: an item of the first record of a file is with the
\* consumer; the second record of the file is still unread.
C16_Witness ==
    /\ api = "SummaryReader"
    /\ pc = "yielded"
    /\ Len(logdir[file_path].records) = 2
    /\ Len(FramedOfFile) = 1
    /\ pos = RecordLen(logdir[file_path].records[1])
    /\ pos < Len(stream.data)
    /\ emitted # <<>>

\* C17: a failed iteration of EventsFileReader failed with
\* EventReadingError, or with NotImplementedError on a stream in
\* non-blocking mode; the one exception that is not the framer's own is the
\* schema library's DecodeError for a payload that passed its checksum.
C17_ErrorClasses ==
    (api = "EventsFileReader" /\ pc = "failed") =>
        \/ exc = "EventReadingError"
        \/ exc = "NotImplementedError" /\ stream.nonblocking
        \/ /\ exc = "DecodeError"
           /\ parsed # <<>>
           /\ ~ ParseFromString(parsed[Len(parsed)]).ok

\* C18: at most one file is open at a time, and it is the file opened
\* last, so that a file is opened only when the one before it is closed;
\* no file is opened twice.
C18_OneOpenFile ==
    api = "SummaryReader" =>
        /\ Cardinality(open_files) <= 1
        /\ \A f \in open_files : opened # <<>> /\ f = opened[Len(opened)]
        /\ pc \in {"for_event", "for_value", "yielded"} => open_files = {file_path}
        /\ \A i, j \in 1..Len(opened) : i # j => opened[i] # opened[j]

\* Witness of C18: the second file is open, the first one is closed again.
C18_Witness ==
    /\ api = "SummaryReader"
    /\ Len(opened) = 2
    /\ open_files = {opened[2]}
    /\ opened[1] \notin open_files
    /\ pc = "yielded"

\* ------------------------------------------------------------------------
\* Properties of _masked_crc32c.
\* ------------------------------------------------------------------------

\* The 16-bit halves <<low, high>> of a word given as bits.
Halves(x) == <<ToInt([i \in 1..16 |-> BitAt(x, i)]), ToInt([i \in 1..16 |-> BitAt(x, 16 + i)])>>

\* ((x >> 15) | (x << 17)) mod 2^32 on the halves <<lo, hi>> of x.
RotateHalves(h) ==
    <<(h[2] % 32768) * 2 + h[1] \div 32768, (h[1] % 32768) * 2 + h[2] \div 32768>>

\* The sum of the word with the halves h and 0xa282ead8, before wrapping:
\* <<low half, high half with the carry out of bit 32>>.
AddDeltaHalves(h) ==
    <<(h[1] + 60120) % 65536, h[2] + 41602 + (h[1] + 60120) \div 65536>>

\* The formula of the claim on the halves of x.
MaskHalves(h) ==
    <<AddDeltaHalves(RotateHalves(h))[1], AddDeltaHalves(RotateHalves(h))[2] % 65536>>

\* The word x rotated right by 15 bits.
RotateRight15(x) == [i \in 1..WordBits |-> x[((i - 1 + 15) % WordBits) + 1]]

\* C19: the result of _masked_crc32c is a 32-bit word, a function of the
\* input bytes alone; it is the CRC32C x of the bytes rotated right by 15
\* bits, which is ((x >> 15) | (x << 17)) mod 2^32, plus 0xa282ead8 modulo
\* 2^32; inputs with different CRCs have different results.
C19_MaskedChecksum ==
    (api = "masked_crc32c" /\ pc = "returned") =>
        /\ Len(crc_masked) = WordBits
        /\ \A i \in 1..WordBits : crc_masked[i] \in {0, 1}
        /\ crc_masked = masked_crc32c(crc_input)
        /\ Halves(crc_masked) = MaskHalves(Halves(crc32c(crc_input)))
        /\ RotateHalves(Halves(crc32c(crc_input))) = Halves(RotateRight15(crc32c(crc_input)))
        /\ \A b \in InputBytes :
             crc32c(<<b>>) # crc32c(crc_input) => masked_crc32c(<<b>>) # crc_masked

\* Witness of C19: a result for which the addition wrapped around 2^32.
C19_Witness ==
    /\ api = "masked_crc32c"
    /\ pc = "returned"
    /\ crc_input # <<>>
    /\ AddDeltaHalves(RotateHalves(Halves(crc32c(crc_input))))[2] >= 65536

====
